---- MODULE Spec2Model ----
(***************************************************************************)
(* Model of the streaming chat pipeline of the customer-service backend:   *)
(*   - chat_stream.generate   (main.py)  : the <think> segmenter of        *)
(*                                         POST /api/chat                  *)
(*   - bot_chat.generate      (main.py)  : the unfiltered bot-chat stream  *)
(*   - KnowledgeManager.search_knowledge and the prompt composition of     *)
(*     POST /api/chat                                                      *)
(* Text is a sequence of one-character strings, so that Python's           *)
(* substring test, str.split(sep, 1) and str.strip() are computed and not  *)
(* assumed.                                                                *)
(***************************************************************************)
EXTENDS Integers, Sequences, FiniteSets, TLC

VARIABLES
    raw,              \* the text the chat backend will stream in this request
    pos,              \* number of characters of raw already delivered
    cuts,             \* history: the positions at which a chunk ended
    in_thinking,      \* generate(): in_thinking
    thinking_buffer,  \* generate(): thinking_buffer
    response_content, \* generate(): response_content
    events,           \* the events yielded to the client so far
    pc,               \* position of the generator
    unhandled         \* TRUE when an exception left the generator

streamVars == <<raw, pos, cuts, in_thinking, thinking_buffer,
                response_content, events, pc, unhandled>>

VARIABLES
    message,          \* ChatMessage.message
    coding_rule,      \* ChatMessage.coding_rule: "none", "empty" ({}) or "rule"
    history,          \* ChatMessage.history
    hpc,              \* position of the /api/chat handler
    embed_threw,      \* history: the /api/embed request raised
    legacy_threw,     \* history: the /api/embeddings fallback request raised
    query_embeddings, \* search_knowledge(): query_embeddings
    search_calls,     \* number of calls of search_knowledge
    store_queries,    \* number of calls of vector_store.search_similar
    store_raised,     \* history: vector_store.search_similar raised
    relevant_docs,    \* chat_stream(): relevant_docs
    user_content,     \* chat_stream(): user_content
    messages,         \* chat_stream(): messages
    stream_started    \* TRUE once the StreamingResponse was returned

chatVars == <<message, coding_rule, history, hpc, embed_threw, legacy_threw,
              query_embeddings, search_calls, store_queries, store_raised,
              relevant_docs, user_content, messages, stream_started>>

VARIABLES
    lines,            \* chat_stream(): the lines response.aiter_lines() delivers
    lpos,             \* number of lines read
    yielded,          \* what chat_stream() has yielded so far
    rpc               \* position of the line reader

readerVars == <<lines, lpos, yielded, rpc>>

VARIABLES
    reqs,             \* two concurrent requests: upstream chunks, events, position
    seg               \* the segmenter state each generate() call works on

concVars == <<reqs, seg>>

VARIABLES
    rules,            \* the coding_rules table: the stored rules, by id
    rule_id,          \* update_coding_rule(): the id of the request path
    existing_rule,    \* update_coding_rule(): what the existence check found
    new_rule_id,      \* update_coding_rule(): the id add_coding_rule returned
    upc               \* position of update_coding_rule()

ruleVars == <<rules, rule_id, existing_rule, new_rule_id, upc>>

VARIABLES
    bot,              \* bot_chat(): what get_bot_by_id returns for item.bot_id
    stream,           \* bot_chat(): item.stream
    bot_searches,     \* number of calls of knowledge_manager.search_knowledge
    bot_backend,      \* number of calls of ollama_client.chat_stream
    bpc               \* position of bot_chat()

gateVars == <<bot, stream, bot_searches, bot_backend, bpc>>

----------------------------------------------------------------------------
(* Text                                                                    *)

OPEN  == <<"<", "t", "h", "i", "n", "k", ">">>
CLOSE == <<"<", "/", "t", "h", "i", "n", "k", ">">>

\* the characters str.strip() removes that the model uses
Whitespace == {" ", "\n"}

MaxTextLen == 3
MaxPartLen == 2

Min(a, b) == IF a < b THEN a ELSE b

\* not s.strip()
IsBlank(s) == \A i \in 1..Len(s) : s[i] \in Whitespace

\* s.find(m) + 1 : index of the first occurrence of m in s, 0 when absent
Find(s, m) ==
    LET hits == {i \in 1..(Len(s) - Len(m) + 1) : SubSeq(s, i, i + Len(m) - 1) = m}
    IN  IF hits = {} THEN 0 ELSE CHOOSE i \in hits : \A j \in hits : i <= j

\* m in s
Contains(s, m) == Find(s, m) # 0

\* s.split(m, 1)[0] and s.split(m, 1)[1], for m in s
SplitBefore(s, m) == SubSeq(s, 1, Find(s, m) - 1)
SplitAfter(s, m)  == SubSeq(s, Find(s, m) + Len(m), Len(s))

RECURSIVE Concat(_)
Concat(ss) == IF ss = <<>> THEN <<>> ELSE Head(ss) \o Concat(Tail(ss))

----------------------------------------------------------------------------
(* Client-facing events                                                    *)

\* {'content': part, 'done': False}
ContentEvent(part) == [kind |-> "content", content |-> part, done |-> "false"]
\* {'content': '', 'done': True}
DoneEvent == [kind |-> "done", content |-> <<>>, done |-> "true"]
\* {'error': f'...{str(e)}'}
ErrorEvent == [kind |-> "error", content |-> <<>>, done |-> "absent"]
\* bot chat: {'content': chunk}
BotContentEvent(chunk) == [kind |-> "content", content |-> chunk, done |-> "absent"]
\* bot chat: the line "data: [DONE]"
SentinelEvent == [kind |-> "sentinel", content |-> <<>>, done |-> "absent"]
\* bot chat: error_message of the except clause
ApologyMessage == <<"sorry, I cannot answer right now">>

\* the events with the given kind, in order
OfKind(evs, k) == SelectSeq(evs, LAMBDA e : e.kind = k)

RECURSIVE Contents(_)
Contents(evs) == IF evs = <<>> THEN <<>> ELSE <<Head(evs).content>> \o Contents(Tail(evs))

\* concatenation of the content of the content events
Visible(evs) == Concat(Contents(OfKind(evs, "content")))

----------------------------------------------------------------------------
(* chat_stream.generate: the segmenter of POST /api/chat                   *)

\* a slip: "</think>" is consumed whether a block is open or not
RECURSIVE ScanMarkers_StripsStrayClose(_, _, _)
ScanMarkers_StripsStrayClose(current_text, inThinking, parts) ==
    IF ~(Contains(current_text, OPEN) \/ Contains(current_text, CLOSE) \/ inThinking)
    THEN [current_text |-> current_text, in_thinking |-> inThinking,
          thinking_buffer |-> <<>>, parts |-> parts]
    ELSE IF ~inThinking /\ Contains(current_text, OPEN)
    THEN LET before_think == SplitBefore(current_text, OPEN)
             after_think  == SplitAfter(current_text, OPEN)
         IN  ScanMarkers_StripsStrayClose(after_think, TRUE,
                         IF ~IsBlank(before_think) THEN Append(parts, before_think)
                                                   ELSE parts)
    ELSE IF Contains(current_text, CLOSE)
    THEN ScanMarkers_StripsStrayClose(SplitAfter(current_text, CLOSE), FALSE, parts)
    ELSE [current_text |-> <<>>, in_thinking |-> TRUE,
          thinking_buffer |-> current_text, parts |-> parts]

\* the while loop of generate(): consumes the complete markers of cur
RECURSIVE ScanMarkers(_, _, _)
ScanMarkers(current_text, inThinking, parts) ==
    IF ~(Contains(current_text, OPEN) \/ Contains(current_text, CLOSE) \/ inThinking)
    THEN [current_text |-> current_text, in_thinking |-> inThinking,
          thinking_buffer |-> <<>>, parts |-> parts]
    ELSE IF ~inThinking /\ Contains(current_text, OPEN)
    THEN LET before_think == SplitBefore(current_text, OPEN)
             after_think  == SplitAfter(current_text, OPEN)
         IN  ScanMarkers(after_think, TRUE,
                         IF ~IsBlank(before_think) THEN Append(parts, before_think)
                                                   ELSE parts)
    ELSE IF inThinking /\ Contains(current_text, CLOSE)
    THEN ScanMarkers(SplitAfter(current_text, CLOSE), FALSE, parts)
    ELSE IF inThinking
    THEN [current_text |-> <<>>, in_thinking |-> TRUE,
          thinking_buffer |-> current_text, parts |-> parts]
    ELSE [current_text |-> current_text, in_thinking |-> FALSE,
          thinking_buffer |-> <<>>, parts |-> parts]

\* the parts the loop body yields: "if part.strip()"
YieldedParts(parts) == SelectSeq(parts, LAMBDA p : ~IsBlank(p))

\* a slip: the last append takes chunk_with_buffer instead of current_text
ProcessChunk_AppendsWhole(buffer, inThinking, chunk) ==
    LET r     == ScanMarkers(buffer \o chunk, inThinking, <<>>)
        parts == IF ~r.in_thinking /\ r.current_text # <<>>
                 THEN Append(r.parts, buffer \o chunk) ELSE r.parts
    IN  [in_thinking |-> r.in_thinking, thinking_buffer |-> r.thinking_buffer,
         out |-> YieldedParts(parts)]

\* a slip: the text left outside a block is emitted and kept in the buffer too
ProcessChunk_KeepsOutsideText(buffer, inThinking, chunk) ==
    LET r     == ScanMarkers(buffer \o chunk, inThinking, <<>>)
        parts == IF ~r.in_thinking /\ r.current_text # <<>>
                 THEN Append(r.parts, r.current_text) ELSE r.parts
    IN  [in_thinking |-> r.in_thinking,
         thinking_buffer |-> IF r.in_thinking THEN r.thinking_buffer ELSE r.current_text,
         out |-> YieldedParts(parts)]

\* a slip: the loop body starts from the chunk alone, the buffer is dropped
ProcessChunk_ForgetsBuffer(buffer, inThinking, chunk) ==
    LET r     == ScanMarkers(chunk, inThinking, <<>>)
        parts == IF ~r.in_thinking /\ r.current_text # <<>>
                 THEN Append(r.parts, r.current_text) ELSE r.parts
    IN  [in_thinking |-> r.in_thinking, thinking_buffer |-> r.thinking_buffer,
         out |-> YieldedParts(parts)]

\* one iteration of "async for chunk in ollama_client.chat_stream(...)"
ProcessChunk(buffer, inThinking, chunk) ==
    LET r     == ScanMarkers(buffer \o chunk, inThinking, <<>>)
        parts == IF ~r.in_thinking /\ r.current_text # <<>>
                 THEN Append(r.parts, r.current_text) ELSE r.parts
    IN  [in_thinking |-> r.in_thinking, thinking_buffer |-> r.thinking_buffer,
         out |-> YieldedParts(parts)]

RECURSIVE AsEvents(_)
AsEvents(parts) ==
    IF parts = <<>> THEN <<>> ELSE <<ContentEvent(Head(parts))>> \o AsEvents(Tail(parts))

----------------------------------------------------------------------------
(* The upstream of one request                                             *)

A == <<"a">>
B == <<"b">>
C == <<"c">>
Partial == <<"p", "a", "r", "t", "i", "a", "l">>

Alphabet == {"a", " ", "<"}

RECURSIVE TextsOver(_, _)
TextsOver(alphabet, n) ==
    IF n = 0 THEN {<<>>}
    ELSE {Append(t, c) : t \in TextsOver(alphabet, n - 1), c \in alphabet}

\* marker-free texts, blanks and a lone "<" included
PlainTexts == UNION {TextsOver(Alphabet, n) : n \in 1..MaxTextLen}

\* texts without whitespace, and texts of a reasoning block
SolidTexts == UNION {TextsOver({"a", "<"}, n) : n \in 1..MaxPartLen}
BlockTexts == {<<"b">>, <<"b", " ">>, <<" ", "b">>, <<"b", "b">>}

\* "A" + "<think>" + "B" + "</think>" + "C"
FullStream == A \o OPEN \o B \o CLOSE \o C

\* a + "<think>" + b, the block never closed
OpenStream(a, b) == a \o OPEN \o b
Unterminated == {OpenStream(a, b) : a \in SolidTexts, b \in BlockTexts}

\* "</think>" with no block open
StrayClose == A \o CLOSE \o C

Streams ==
    {FullStream, OPEN \o B, Partial, StrayClose} \cup Unterminated \cup PlainTexts

received == SubSeq(raw, 1, pos)

\* the chunks of text that end at the positions cs, in order
RECURSIVE ChunksFrom(_, _, _)
ChunksFrom(text, cs, from) ==
    LET later == {c \in cs : c > from /\ c <= Len(text)}
    IN  IF later = {} THEN <<>>
        ELSE LET nxt == CHOOSE c \in later : \A d \in later : c <= d
             IN  <<SubSeq(text, from + 1, nxt)>> \o ChunksFrom(text, cs, nxt)

ChunksOf(text, cs) == ChunksFrom(text, cs, 0)

\* the line reader and the pair of concurrent requests at rest
ReaderIdle ==
    /\ lines = <<>>
    /\ lpos = 0
    /\ yielded = <<>>
    /\ rpc = "idle"

ConcIdle ==
    /\ reqs = <<>>
    /\ seg = <<>>

\* no coding-rule update and no bot chat in progress
RulesIdle ==
    /\ rules = {}
    /\ rule_id = "none"
    /\ existing_rule = "none"
    /\ new_rule_id = "none"
    /\ upc = "idle"

GateIdle ==
    /\ bot = "none"
    /\ stream = FALSE
    /\ bot_searches = 0
    /\ bot_backend = 0
    /\ bpc = "idle"

\* the request handler at rest, for the specifications of the generators
ChatIdle ==
    /\ message = <<"q">>
    /\ coding_rule = "none"
    /\ history = <<>>
    /\ hpc = "streaming"
    /\ embed_threw = FALSE
    /\ legacy_threw = FALSE
    /\ query_embeddings = "vector"
    /\ search_calls = 1
    /\ store_queries = 1
    /\ store_raised = FALSE
    /\ relevant_docs = <<>>
    /\ user_content = <<"q">>
    /\ messages = <<[role |-> "user", content |-> <<"q">>]>>
    /\ stream_started = TRUE

Init ==
    /\ ChatIdle
    /\ ReaderIdle
    /\ ConcIdle
    /\ RulesIdle
    /\ GateIdle
    /\ raw \in Streams
    /\ pos = 0
    /\ cuts = {}
    /\ in_thinking = FALSE
    /\ thinking_buffer = <<>>
    /\ response_content = <<>>
    /\ events = <<>>
    /\ pc = "streaming"
    /\ unhandled = FALSE

\* the backend yields the next n characters as one chunk; the loop body runs
RecvChunk ==
    /\ pc = "streaming"
    /\ \E n \in 1..(Len(raw) - pos) :
         LET chunk == SubSeq(raw, pos + 1, pos + n)
             r     == ProcessChunk(thinking_buffer, in_thinking, chunk)
         IN  /\ pos' = pos + n
             /\ cuts' = cuts \cup {pos + n}
             /\ in_thinking' = r.in_thinking
             /\ thinking_buffer' = r.thinking_buffer
             /\ response_content' = response_content \o Concat(r.out)
             /\ events' = events \o AsEvents(r.out)
    /\ UNCHANGED <<raw, pc, unhandled>>
    /\ UNCHANGED <<chatVars, readerVars, concVars, ruleVars, gateVars>>

\* a slip: the pending buffer is flushed at the end whatever the state
UpstreamEnd_FlushesBuffer ==
    /\ pc = "streaming"
    /\ pos = Len(raw)
    /\ events' = (IF thinking_buffer # <<>>
                    THEN Append(events, ContentEvent(thinking_buffer))
                    ELSE events) \o <<DoneEvent>>
    /\ pc' = "completed"
    /\ UNCHANGED <<raw, pos, cuts, in_thinking, thinking_buffer,
                   response_content, unhandled>>
    /\ UNCHANGED <<chatVars, readerVars, concVars, ruleVars, gateVars>>

\* the backend stream ends: the completion event is yielded
UpstreamEnd ==
    /\ pc = "streaming"
    /\ pos = Len(raw)
    /\ events' = Append(events, DoneEvent)
    /\ pc' = "completed"
    /\ UNCHANGED <<raw, pos, cuts, in_thinking, thinking_buffer,
                   response_content, unhandled>>
    /\ UNCHANGED <<chatVars, readerVars, concVars, ruleVars, gateVars>>

\* a slip: generate() without its except clause
UpstreamRaise_NoHandler ==
    /\ pc = "streaming"
    /\ pc' = "failed"
    /\ unhandled' = TRUE
    /\ UNCHANGED <<raw, pos, cuts, in_thinking, thinking_buffer,
                   response_content, events>>
    /\ UNCHANGED <<chatVars, readerVars, concVars, ruleVars, gateVars>>

\* chat_stream raises while it is iterated: the except clause of generate()
UpstreamRaise ==
    /\ pc = "streaming"
    /\ events' = Append(events, ErrorEvent)
    /\ pc' = "failed"
    /\ unhandled' = FALSE
    /\ UNCHANGED <<raw, pos, cuts, in_thinking, thinking_buffer, response_content>>
    /\ UNCHANGED <<chatVars, readerVars, concVars, ruleVars, gateVars>>

Next == RecvChunk \/ UpstreamEnd \/ UpstreamRaise

vars == <<streamVars, chatVars, readerVars, concVars, ruleVars, gateVars>>

Spec == Init /\ [][Next]_vars

----------------------------------------------------------------------------
(* bot_chat.generate: the streaming bot chat with the knowledge base on    *)

\* a slip: the marker filter of the non-streaming branch applied here
BotForward_Filters(chunk) ==
    IF chunk # <<>> /\ ~Contains(chunk, OPEN) /\ ~Contains(chunk, CLOSE)
    THEN <<BotContentEvent(chunk)>> ELSE <<>>

\* one iteration of the loop: "if chunk: yield {'content': chunk}"
BotForward(chunk) == IF chunk # <<>> THEN <<BotContentEvent(chunk)>> ELSE <<>>

BotRecvChunk ==
    /\ pc = "streaming"
    /\ \E n \in 1..(Len(raw) - pos) :
         /\ pos' = pos + n
         /\ cuts' = cuts \cup {pos + n}
         /\ events' = events \o BotForward(SubSeq(raw, pos + 1, pos + n))
    /\ UNCHANGED <<raw, in_thinking, thinking_buffer, response_content, pc, unhandled>>
    /\ UNCHANGED <<chatVars, readerVars, concVars, ruleVars, gateVars>>

BotUpstreamEnd ==
    /\ pc = "streaming"
    /\ pos = Len(raw)
    /\ events' = Append(events, SentinelEvent)
    /\ pc' = "completed"
    /\ UNCHANGED <<raw, pos, cuts, in_thinking, thinking_buffer,
                   response_content, unhandled>>
    /\ UNCHANGED <<chatVars, readerVars, concVars, ruleVars, gateVars>>

\* a slip: the except clause yields the apology and stops there
BotUpstreamRaise_NoSentinel ==
    /\ pc = "streaming"
    /\ events' = Append(events, BotContentEvent(ApologyMessage))
    /\ pc' = "failed"
    /\ unhandled' = FALSE
    /\ UNCHANGED <<raw, pos, cuts, in_thinking, thinking_buffer, response_content>>
    /\ UNCHANGED <<chatVars, readerVars, concVars, ruleVars, gateVars>>

\* the except clause: the apology, then the sentinel
BotUpstreamRaise ==
    /\ pc = "streaming"
    /\ events' = events \o <<BotContentEvent(ApologyMessage), SentinelEvent>>
    /\ pc' = "failed"
    /\ unhandled' = FALSE
    /\ UNCHANGED <<raw, pos, cuts, in_thinking, thinking_buffer, response_content>>
    /\ UNCHANGED <<chatVars, readerVars, concVars, ruleVars, gateVars>>

NextBot == BotRecvChunk \/ BotUpstreamEnd \/ BotUpstreamRaise

SpecBot == Init /\ [][NextBot]_vars

----------------------------------------------------------------------------
(* bot_chat: the non-streaming branch with the knowledge base on           *)

\* str.strip()
RECURSIVE LStrip(_)
LStrip(t) == IF t # <<>> /\ Head(t) \in Whitespace THEN LStrip(Tail(t)) ELSE t

RECURSIVE RStrip(_)
RStrip(t) ==
    IF t # <<>> /\ t[Len(t)] \in Whitespace THEN RStrip(SubSeq(t, 1, Len(t) - 1)) ELSE t

Strip(t) == RStrip(LStrip(t))

\* `if "<think>" not in chunk and "</think>" not in chunk: response_content += chunk`
BotSyncKeep(chunk) ==
    IF ~Contains(chunk, OPEN) /\ ~Contains(chunk, CLOSE) THEN chunk ELSE <<>>

BotSyncRecvChunk ==
    /\ pc = "streaming"
    /\ \E n \in 1..(Len(raw) - pos) :
         /\ pos' = pos + n
         /\ cuts' = cuts \cup {pos + n}
         /\ response_content' = response_content \o BotSyncKeep(SubSeq(raw, pos + 1, pos + n))
    /\ UNCHANGED <<raw, in_thinking, thinking_buffer, events, pc, unhandled>>
    /\ UNCHANGED <<chatVars, readerVars, concVars, ruleVars, gateVars>>

\* the upstream ends: the default reply for an empty answer, then
\* "response": response_content.strip()
BotSyncEnd ==
    /\ pc = "streaming"
    /\ pos = Len(raw)
    /\ response_content' = Strip(IF IsBlank(response_content) THEN ApologyMessage
                                                              ELSE response_content)
    /\ pc' = "completed"
    /\ UNCHANGED <<raw, pos, cuts, in_thinking, thinking_buffer, events, unhandled>>
    /\ UNCHANGED <<chatVars, readerVars, concVars, ruleVars, gateVars>>

\* the except clause: the apology is the response
BotSyncRaise ==
    /\ pc = "streaming"
    /\ response_content' = Strip(ApologyMessage)
    /\ pc' = "failed"
    /\ unhandled' = FALSE
    /\ UNCHANGED <<raw, pos, cuts, in_thinking, thinking_buffer, events>>
    /\ UNCHANGED <<chatVars, readerVars, concVars, ruleVars, gateVars>>

NextBotSync == BotSyncRecvChunk \/ BotSyncEnd \/ BotSyncRaise

SpecBotSync == Init /\ [][NextBotSync]_vars

----------------------------------------------------------------------------
(* POST /api/chat before the stream: retrieval and prompt composition      *)
(* Distances and similarities are counted in tenths: 10 stands for 1.0.    *)

TopK == 3
PreviewLen == 300

Max(a, b) == IF a > b THEN a ELSE b

\* a slip: the similarity clamped into [0, 1] from 1 - distance
Similarity_ClampedToOne(distance) == Min(10, Max(0, 10 - distance))

\* a slip: the conversion without its max(0.0, ...)
Similarity_Unclamped(distance) ==
    IF distance < 0 THEN 10 + distance ELSE 10 - distance

\* search_knowledge(): distance to similarity
Similarity(distance) ==
    IF distance < 0 THEN Max(0, 10 + distance) ELSE Max(0, 10 - distance)

\* the distances a store result can carry, in tenths
Distances == {-12, -2, 0, 1, 5, 10, 15}

\* len(content) of the document with the given id
ContentLen(id) == CASE id = 1 -> 120 [] id = 2 -> 300 [] OTHER -> 301

\* what vector_store.search_similar can return: at most top_k results, the
\* i-th one with id i
StoreResults ==
    UNION {[1..n -> Distances] : n \in 0..TopK}

RawResult(ds, i) == [id |-> i, distance |-> ds[i], content_len |-> ContentLen(i)]

\* search_knowledge(): formatted_result
Format(result) ==
    [id |-> result.id, title |-> result.id, content_len |-> result.content_len,
     similarity |-> Similarity(result.distance), distance |-> result.distance]

RECURSIVE FormatAll(_, _)
FormatAll(ds, i) ==
    IF i > Len(ds) THEN <<>> ELSE <<Format(RawResult(ds, i))>> \o FormatAll(ds, i + 1)

\* a slip: insertion in front of the equal elements, the sort is not stable
RECURSIVE InsertDesc_Unstable(_, _)
InsertDesc_Unstable(sorted, x) ==
    IF sorted = <<>> THEN <<x>>
    ELSE IF Head(sorted).similarity > x.similarity
         THEN <<Head(sorted)>> \o InsertDesc_Unstable(Tail(sorted), x)
         ELSE <<x>> \o sorted

\* insertion behind the elements that are not smaller: keeps equal ones in order
RECURSIVE InsertDesc(_, _)
InsertDesc(sorted, x) ==
    IF sorted = <<>> THEN <<x>>
    ELSE IF Head(sorted).similarity >= x.similarity
         THEN <<Head(sorted)>> \o InsertDesc(Tail(sorted), x)
         ELSE <<x>> \o sorted

\* formatted_results.sort(key=similarity, reverse=True), a stable sort
RECURSIVE SortDesc(_, _)
SortDesc(rest, sorted) ==
    IF rest = <<>> THEN sorted ELSE SortDesc(Tail(rest), InsertDesc(sorted, Head(rest)))

\* search_knowledge() after the store answered with the distances ds
FormattedResults(ds) == SortDesc(FormatAll(ds, 1), <<>>)

\* one line of context_info: the title and the content cut at 300 characters
Bullet(doc) ==
    [title |-> doc.title,
     shown |-> Min(doc.content_len, PreviewLen),
     ellipsis |-> doc.content_len > PreviewLen]

RECURSIVE Bullets(_)
Bullets(docs) == IF docs = <<>> THEN <<>> ELSE <<Bullet(Head(docs))>> \o Bullets(Tail(docs))

\* chat_stream(): user_content of the knowledge mode
KnowledgeContent(msg, docs) ==
    IF docs # <<>> THEN msg \o <<"[context]">> \o Bullets(docs) ELSE msg

\* chat_stream(): user_content of the coding rule mode
RuleContent(msg) == <<"[review]">> \o msg \o <<"[/review]">>

Messages == {<<>>, <<" ">>, <<"q">>}

\* ChatMessage.coding_rule: absent, an empty dict, or a rule
CodingRules == {"none", "empty", "rule"}

\* "if message.coding_rule:"
RuleSelected_Never(rule) == FALSE

RuleSelected(rule) == rule = "rule"

HistLimit == 10
MaxHistory == 11

TurnTexts == <<"h1", "h2", "h3", "h4", "h5", "h6", "h7", "h8", "h9", "h10",
               "h11", "h12", "h13", "h14">>

\* the i-th turn of a conversation
Turn(i) ==
    [role |-> IF i % 2 = 1 THEN "user" ELSE "assistant", content |-> <<TurnTexts[i]>>]

\* a turn without a role, or with an empty content
BrokenTurn(i) ==
    IF i % 2 = 1 THEN [role |-> "", content |-> <<TurnTexts[i]>>]
                 ELSE [role |-> "assistant", content |-> <<>>]

\* the histories a caller can send: n turns, at most one of them broken
Histories ==
    {[i \in 1..n |-> IF i = broken THEN BrokenTurn(i) ELSE Turn(i)] :
        n \in 0..MaxHistory, broken \in 0..MaxHistory}

\* the user turn that ends the message list
UserTurn(content) == [role |-> "user", content |-> content]

\* message.history[-10:]
LastTurns_FirstTen(hist) == SubSeq(hist, 1, Min(HistLimit, Len(hist)))

LastTurns(hist) == SubSeq(hist, Max(1, Len(hist) - HistLimit + 1), Len(hist))

\* 'if hist_msg.get("role") and hist_msg.get("content")'
TurnKept(turn) == turn.role # "" /\ turn.content # <<>>

\* chat_stream(): messages
BuildMessages(hist, content) ==
    SelectSeq(LastTurns(hist), TurnKept) \o <<UserTurn(content)>>

StreamIdle ==
    /\ raw = <<>>
    /\ pos = 0
    /\ cuts = {}
    /\ in_thinking = FALSE
    /\ thinking_buffer = <<>>
    /\ response_content = <<>>
    /\ events = <<>>
    /\ pc = "idle"
    /\ unhandled = FALSE

InitChat ==
    /\ StreamIdle
    /\ ReaderIdle
    /\ ConcIdle
    /\ RulesIdle
    /\ GateIdle
    /\ message \in Messages
    /\ coding_rule \in CodingRules
    /\ history \in Histories
    /\ hpc = "received"
    /\ embed_threw = FALSE
    /\ legacy_threw = FALSE
    /\ query_embeddings = "none"
    /\ search_calls = 0
    /\ store_queries = 0
    /\ store_raised = FALSE
    /\ relevant_docs = <<>>
    /\ user_content = <<>>
    /\ messages = <<>>
    /\ stream_started = FALSE

\* the message list is built and the StreamingResponse is returned
Respond(content) ==
    /\ user_content' = content
    /\ messages' = BuildMessages(history, content)
    /\ stream_started' = TRUE
    /\ hpc' = "streaming"

\* search_knowledge returned docs: the prompt is composed and the
\* StreamingResponse is returned
ComposeAndRespond(docs) ==
    /\ relevant_docs' = docs
    /\ Respond(KnowledgeContent(message, docs))

\* the handler up to its first await on a backend
ChatRequest ==
    /\ hpc = "received"
    /\ IF RuleSelected(coding_rule)
       THEN /\ Respond(RuleContent(message))
            /\ UNCHANGED <<search_calls, relevant_docs>>
       ELSE /\ search_calls' = search_calls + 1
            /\ IF IsBlank(message)
               THEN ComposeAndRespond(<<>>)
               ELSE /\ hpc' = "embed"
                    /\ UNCHANGED <<relevant_docs, user_content, messages,
                                   stream_started>>
    /\ UNCHANGED <<message, coding_rule, history, embed_threw, legacy_threw,
                   query_embeddings, store_queries, store_raised>>
    /\ UNCHANGED <<streamVars, readerVars, concVars, ruleVars, gateVars>>

\* get_embeddings(): the request to /api/embed
EmbedCall ==
    /\ hpc = "embed"
    /\ \E outcome \in {"embeddings", "no_embeddings", "status", "throws"} :
         /\ embed_threw' = (outcome = "throws")
         /\ CASE outcome = "embeddings" ->
                   /\ query_embeddings' = "vector"
                   /\ hpc' = "store"
              [] outcome = "no_embeddings" ->
                   /\ query_embeddings' = "zero"
                   /\ hpc' = "store"
              [] OTHER ->
                   /\ hpc' = "legacy"
                   /\ UNCHANGED query_embeddings
    /\ UNCHANGED <<message, coding_rule, history, legacy_threw, search_calls,
                   store_queries, store_raised, relevant_docs, user_content,
                   messages, stream_started>>
    /\ UNCHANGED <<streamVars, readerVars, concVars, ruleVars, gateVars>>

\* _get_embeddings_legacy(): the request to /api/embeddings
LegacyEmbedCall ==
    /\ hpc = "legacy"
    /\ \E outcome \in {"embedding", "no_embedding", "status", "throws"} :
         /\ legacy_threw' = (outcome = "throws")
         /\ query_embeddings' = IF outcome = "embedding" THEN "vector" ELSE "zero"
    /\ hpc' = "store"
    /\ UNCHANGED <<message, coding_rule, history, embed_threw, search_calls,
                   store_queries, store_raised, relevant_docs, user_content,
                   messages, stream_started>>
    /\ UNCHANGED <<streamVars, readerVars, concVars, ruleVars, gateVars>>

\* a slip: search_knowledge without its except clause, the handler answers 500
StoreFailure_Propagates ==
    /\ store_raised' = TRUE
    /\ hpc' = "http500"
    /\ UNCHANGED <<relevant_docs, user_content, messages, stream_started>>

\* search_similar raised: the except clause of search_knowledge returns []
StoreFailure ==
    /\ store_raised' = TRUE
    /\ ComposeAndRespond(<<>>)

\* search_knowledge() from "if not query_embeddings" on, then the composition
StoreQuery ==
    /\ hpc = "store"
    /\ IF query_embeddings = "none"
       THEN /\ ComposeAndRespond(<<>>)
            /\ UNCHANGED <<store_queries, store_raised>>
       ELSE /\ store_queries' = store_queries + 1
            /\ \/ /\ \E ds \in StoreResults : ComposeAndRespond(FormattedResults(ds))
                  /\ UNCHANGED store_raised
               \/ StoreFailure
    /\ UNCHANGED <<message, coding_rule, history, embed_threw, legacy_threw,
                   query_embeddings, search_calls>>
    /\ UNCHANGED <<streamVars, readerVars, concVars, ruleVars, gateVars>>

NextChat == ChatRequest \/ EmbedCall \/ LegacyEmbedCall \/ StoreQuery

SpecChat == InitChat /\ [][NextChat]_vars

----------------------------------------------------------------------------
(* services/ollama_client.py: OllamaClient.chat_stream, the line reader    *)

MaxLines == 3

\* An upstream line, by what json.loads and the tests on its value make of
\* it: "blank" is the empty line, "garbage" is text json.loads rejects,
\* "scalar" is valid JSON that is not an object (null, 42, [], "x"), and
\* "object" is a JSON object whose message carries content ("absent", "empty"
\* or "text"), `tools` tool calls and a done flag.
ObjectLines ==
    [kind : {"object"}, content : {"absent", "empty", "text"},
     tools : 0..1, done : BOOLEAN]

OtherLine(kind) == [kind |-> kind, content |-> "absent", tools |-> 0, done |-> FALSE]

LineValues == ObjectLines \cup {OtherLine("blank"), OtherLine("garbage"), OtherLine("scalar")}

LineSeqs == UNION {[1..n -> LineValues] : n \in 0..MaxLines}

\* what the reader yields is recorded by the line it came from
Fragment(i, kind) == [line |-> i, kind |-> kind]

\* `if content: yield content`
ContentYield(i, line) ==
    IF line.content = "text" THEN <<Fragment(i, "content")>> ELSE <<>>

\* one `<tool_call>...</tool_call>` text for every tool call of the line
ToolYield(i, line) ==
    IF line.tools > 0 THEN [k \in 1..line.tools |-> Fragment(i, "tool_call")] ELSE <<>>

\* json.loads(line) raises json.JSONDecodeError
DecodeFails(line) == line.kind = "garbage"

\* the tests on `data` raise TypeError or AttributeError, which
\* `except json.JSONDecodeError` does not catch
ValueFails(line) == line.kind = "scalar"

InitReader ==
    /\ StreamIdle
    /\ ChatIdle
    /\ ConcIdle
    /\ RulesIdle
    /\ GateIdle
    /\ lines \in LineSeqs
    /\ lpos = 0
    /\ yielded = <<>>
    /\ rpc = "connecting"

\* `if response.status_code != 200: raise Exception(error_msg)`
ReaderConnect ==
    /\ rpc = "connecting"
    /\ \E status \in {200, 500} :
          rpc' = IF status # 200 THEN "status_error" ELSE "reading"
    /\ UNCHANGED <<lines, lpos, yielded>>
    /\ UNCHANGED <<streamVars, chatVars, concVars, ruleVars, gateVars>>

\* a slip: the loop goes on after a line with done=true
ReaderLine_NoBreak ==
    /\ rpc = "reading"
    /\ lpos < Len(lines)
    /\ LET i == lpos + 1
           line == lines[i]
       IN  /\ lpos' = i
           /\ IF line.kind = "blank" \/ DecodeFails(line)
              THEN /\ yielded' = yielded
                   /\ rpc' = "reading"
              ELSE IF ValueFails(line)
              THEN /\ yielded' = yielded
                   /\ rpc' = "raised"
              ELSE /\ yielded' = yielded \o ContentYield(i, line) \o ToolYield(i, line)
                   /\ rpc' = "reading"
    /\ UNCHANGED lines
    /\ UNCHANGED <<streamVars, chatVars, concVars, ruleVars, gateVars>>

\* one turn of `async for line in response.aiter_lines()`
ReaderLine ==
    /\ rpc = "reading"
    /\ lpos < Len(lines)
    /\ LET i == lpos + 1
           line == lines[i]
       IN  /\ lpos' = i
           /\ IF line.kind = "blank" \/ DecodeFails(line)
              THEN /\ yielded' = yielded
                   /\ rpc' = "reading"
              ELSE IF ValueFails(line)
              THEN /\ yielded' = yielded
                   /\ rpc' = "raised"
              ELSE /\ yielded' = yielded \o ContentYield(i, line) \o ToolYield(i, line)
                   /\ rpc' = IF line.done THEN "stopped" ELSE "reading"
    /\ UNCHANGED lines
    /\ UNCHANGED <<streamVars, chatVars, concVars, ruleVars, gateVars>>

\* aiter_lines() is exhausted
ReaderExhausted ==
    /\ rpc = "reading"
    /\ lpos = Len(lines)
    /\ rpc' = "exhausted"
    /\ UNCHANGED <<lines, lpos, yielded>>
    /\ UNCHANGED <<streamVars, chatVars, concVars, ruleVars, gateVars>>

NextReader == ReaderConnect \/ ReaderLine \/ ReaderExhausted

SpecReader == InitReader /\ [][NextReader]_vars

----------------------------------------------------------------------------
(* main.py: two chat requests served concurrently by one event loop        *)

Requests == 1..2

\* the chunks the backend delivers to one request
ChunkLists ==
    { <<A, OPEN \o B, CLOSE \o C>>,
      <<OPEN \o B, B \o CLOSE, C>>,
      <<A \o OPEN \o B \o CLOSE \o C>>,
      <<OPEN, B>>,
      <<A, C>> }

\* response_content, in_thinking and thinking_buffer as generate() sets them
FreshSegmenter ==
    [in_thinking |-> FALSE, thinking_buffer |-> <<>>, response_content |-> <<>>]

\* a slip: the segmenter state kept in one place for every request
SegmenterOwner_Shared(i) == 1

\* the three are locals of generate(): every call has its own
SegmenterOwner(i) == i

InitTwo ==
    /\ StreamIdle
    /\ ChatIdle
    /\ ReaderIdle
    /\ reqs \in [Requests -> {[chunks |-> c, idx |-> 0, events |-> <<>>, pc |-> "streaming"] :
                                c \in ChunkLists}]
    /\ seg = [i \in Requests |-> FreshSegmenter]
    /\ RulesIdle
    /\ GateIdle

\* request i receives its next chunk; the event loop runs the iteration of
\* one request at a time
ConcRecv(i) ==
    /\ reqs[i].pc = "streaming"
    /\ reqs[i].idx < Len(reqs[i].chunks)
    /\ LET o  == SegmenterOwner(i)
           st == seg[o]
           r  == ProcessChunk(st.thinking_buffer, st.in_thinking,
                              reqs[i].chunks[reqs[i].idx + 1])
       IN  /\ seg' = [seg EXCEPT ![o] =
                         [in_thinking |-> r.in_thinking,
                          thinking_buffer |-> r.thinking_buffer,
                          response_content |-> st.response_content \o Concat(r.out)]]
           /\ reqs' = [reqs EXCEPT ![i].idx = @ + 1,
                                   ![i].events = @ \o AsEvents(r.out)]
    /\ UNCHANGED <<streamVars, chatVars, readerVars, ruleVars, gateVars>>

\* the backend stream of request i ends
ConcEnd(i) ==
    /\ reqs[i].pc = "streaming"
    /\ reqs[i].idx = Len(reqs[i].chunks)
    /\ reqs' = [reqs EXCEPT ![i].events = Append(@, DoneEvent),
                            ![i].pc = "completed"]
    /\ UNCHANGED seg
    /\ UNCHANGED <<streamVars, chatVars, readerVars, ruleVars, gateVars>>

\* chat_stream of request i raises
ConcRaise(i) ==
    /\ reqs[i].pc = "streaming"
    /\ reqs' = [reqs EXCEPT ![i].events = Append(@, ErrorEvent),
                            ![i].pc = "failed"]
    /\ UNCHANGED seg
    /\ UNCHANGED <<streamVars, chatVars, readerVars, ruleVars, gateVars>>

NextTwo == \E i \in Requests : ConcRecv(i) \/ ConcEnd(i) \/ ConcRaise(i)

SpecTwo == InitTwo /\ [][NextTwo]_vars

----------------------------------------------------------------------------
(* main.py: update_coding_rule, PUT /api/coding-rules/{rule_id}            *)

\* the ids of the rules the table can hold at the start, an id no rule has,
\* and the ids uuid.uuid4() can give a new rule
StoredIds == {"r1", "r2", "r3"}
PathIds == StoredIds \cup {"r9"}
FreshIds == {"u1", "u2"}

\* a row of coding_rules
Rule(id, content) == [id |-> id, content |-> content]

\* SELECT * FROM coding_rules WHERE id = ?
RuleById(table, id) == {r \in table : r.id = id}

InitRules ==
    /\ StreamIdle
    /\ ChatIdle
    /\ ReaderIdle
    /\ ConcIdle
    /\ GateIdle
    /\ \E ids \in SUBSET StoredIds : rules = {Rule(id, "old") : id \in ids}
    /\ rule_id \in PathIds
    /\ existing_rule = "none"
    /\ new_rule_id = "none"
    /\ upc = "received"

\* get_coding_rule_by_id: the existence check
UpdateCheck ==
    /\ upc = "received"
    /\ \/ /\ existing_rule' = IF RuleById(rules, rule_id) # {} THEN "found" ELSE "missing"
          /\ upc' = IF RuleById(rules, rule_id) # {} THEN "checked" ELSE "http404"
       \/ /\ upc' = "http500"
          /\ UNCHANGED existing_rule
    /\ UNCHANGED <<rules, rule_id, new_rule_id>>
    /\ UNCHANGED <<streamVars, chatVars, readerVars, concVars, gateVars>>

\* delete_coding_rule: DELETE ... WHERE id = ?, committed; a failure leaves
\* the table as it was
UpdateDelete ==
    /\ upc = "checked"
    /\ \/ /\ rules' = rules \ RuleById(rules, rule_id)
          /\ upc' = IF RuleById(rules, rule_id) # {} THEN "deleted" ELSE "http404"
       \/ /\ upc' = "http500"
          /\ UNCHANGED rules
    /\ UNCHANGED <<rule_id, existing_rule, new_rule_id>>
    /\ UNCHANGED <<streamVars, chatVars, readerVars, concVars, gateVars>>

\* add_coding_rule: INSERT under a new uuid, committed; a failure is raised
\* and answered with HTTP 500
UpdateAdd ==
    /\ upc = "deleted"
    /\ \/ \E id \in FreshIds :
             /\ rules' = rules \cup {Rule(id, "new")}
             /\ new_rule_id' = id
             /\ upc' = "ok"
       \/ /\ upc' = "http500"
          /\ UNCHANGED <<rules, new_rule_id>>
    /\ UNCHANGED <<rule_id, existing_rule>>
    /\ UNCHANGED <<streamVars, chatVars, readerVars, concVars, gateVars>>

NextRules == UpdateCheck \/ UpdateDelete \/ UpdateAdd

SpecRules == InitRules /\ [][NextRules]_vars

----------------------------------------------------------------------------
(* main.py: bot_chat, POST /api/bot-chat                                   *)

\* what the bots table holds for item.bot_id: no row, or a row with
\* knowledge_base_enabled 1 or 0
Bots == {"absent", "enabled", "disabled"}

\* a slip: the knowledge-base branch is taken for every bot
KnowledgeBaseEnabled_Always(b) == TRUE

\* bot.get('knowledge_base_enabled', True)
KnowledgeBaseEnabled(b) == b = "enabled"

\* random.choice(simple_responses)
SimpleResponses == {<<"s1">>, <<"s2">>, <<"s3">>, <<"s4">>, <<"s5">>}

\* what the backend streams to a bot request
GateStreams == {A \o C, OPEN \o B}

InitGate ==
    /\ ChatIdle
    /\ ReaderIdle
    /\ ConcIdle
    /\ RulesIdle
    /\ raw \in GateStreams
    /\ pos = 0
    /\ cuts = {}
    /\ in_thinking = FALSE
    /\ thinking_buffer = <<>>
    /\ response_content = <<>>
    /\ events = <<>>
    /\ pc = "idle"
    /\ unhandled = FALSE
    /\ bot \in Bots
    /\ stream \in BOOLEAN
    /\ bot_searches = 0
    /\ bot_backend = 0
    /\ bpc = "received"

\* get_bot_by_id, then `if not bot: raise HTTPException(404)`; a failure of
\* the lookup is answered with HTTP 500
BotLookup ==
    /\ bpc = "received"
    /\ \/ bpc' = IF bot = "absent" THEN "http404" ELSE "found"
       \/ bpc' = "http500"
    /\ UNCHANGED <<bot, stream, bot_searches, bot_backend>>
    /\ UNCHANGED <<streamVars, chatVars, readerVars, concVars, ruleVars>>

\* knowledge base on: search_knowledge(item.message, top_k=3), which never
\* raises; the prompt built from its result is not part of the state
BotSearch ==
    /\ bpc = "found"
    /\ KnowledgeBaseEnabled(bot)
    /\ bot_searches' = bot_searches + 1
    /\ bpc' = "searched"
    /\ UNCHANGED <<bot, stream, bot_backend>>
    /\ UNCHANGED <<streamVars, chatVars, readerVars, concVars, ruleVars>>

\* item.stream: the StreamingResponse is returned and generate() opens the
\* backend stream
BotStreamStart ==
    /\ bpc = "searched"
    /\ stream
    /\ bot_backend' = bot_backend + 1
    /\ pc' = "streaming"
    /\ bpc' = "responded"
    /\ UNCHANGED <<bot, stream, bot_searches>>
    /\ UNCHANGED <<raw, pos, cuts, in_thinking, thinking_buffer, response_content,
                   events, unhandled>>
    /\ UNCHANGED <<chatVars, readerVars, concVars, ruleVars>>

\* the chunks of the whole backend stream, filtered and joined
RECURSIVE BotSyncJoin(_)
BotSyncJoin(chunks) ==
    IF chunks = <<>> THEN <<>> ELSE BotSyncKeep(Head(chunks)) \o BotSyncJoin(Tail(chunks))

\* not item.stream: the handler reads the backend stream itself and returns
\* the filtered text, or the apology when the text is blank or the stream raised
BotAnswer ==
    /\ bpc = "searched"
    /\ ~stream
    /\ bot_backend' = bot_backend + 1
    /\ \/ \E cs \in SUBSET (1..(Len(raw) - 1)) :
             LET text == BotSyncJoin(ChunksOf(raw, cs \cup {Len(raw)}))
             IN  response_content' = Strip(IF IsBlank(text) THEN ApologyMessage ELSE text)
       \/ response_content' = Strip(ApologyMessage)
    /\ bpc' = "responded"
    /\ UNCHANGED <<bot, stream, bot_searches>>
    /\ UNCHANGED <<raw, pos, cuts, in_thinking, thinking_buffer, events, pc, unhandled>>
    /\ UNCHANGED <<chatVars, readerVars, concVars, ruleVars>>

\* knowledge base off: generate_simple() when item.stream, else the simple
\* response in the JSON body
BotSimple ==
    /\ bpc = "found"
    /\ ~KnowledgeBaseEnabled(bot)
    /\ \E response \in SimpleResponses :
         IF stream
         THEN /\ events' = <<BotContentEvent(response), SentinelEvent>>
              /\ pc' = "completed"
              /\ UNCHANGED response_content
         ELSE /\ response_content' = response
              /\ UNCHANGED <<events, pc>>
    /\ bpc' = "responded"
    /\ UNCHANGED <<bot, stream, bot_searches, bot_backend>>
    /\ UNCHANGED <<raw, pos, cuts, in_thinking, thinking_buffer, unhandled>>
    /\ UNCHANGED <<chatVars, readerVars, concVars, ruleVars>>

NextGate ==
    \/ BotLookup \/ BotSearch \/ BotStreamStart \/ BotAnswer \/ BotSimple
    \/ BotRecvChunk \/ BotUpstreamEnd \/ BotUpstreamRaise

SpecGate == InitGate /\ [][NextGate]_vars

----------------------------------------------------------------------------
(* Reference computations over a whole chunk sequence                      *)

\* the segmenter run over a list of chunks, from the state st
RECURSIVE Feed(_, _)
Feed(chunks, st) ==
    IF chunks = <<>> THEN st
    ELSE LET r == ProcessChunk(st.thinking_buffer, st.in_thinking, Head(chunks))
         IN  Feed(Tail(chunks),
                  [in_thinking |-> r.in_thinking,
                   thinking_buffer |-> r.thinking_buffer,
                   out |-> st.out \o Concat(r.out)])

FeedAll(chunks) ==
    Feed(chunks, [in_thinking |-> FALSE, thinking_buffer |-> <<>>, out |-> <<>>])

\* s can be obtained from t by deleting characters
RECURSIVE IsSubseq(_, _)
IsSubseq(s, t) ==
    IF s = <<>> THEN TRUE
    ELSE IF t = <<>> THEN FALSE
    ELSE IF Head(s) = Head(t) THEN IsSubseq(Tail(s), Tail(t))
    ELSE IsSubseq(s, Tail(t))

Last(q) == q[Len(q)]

\* exactly one completion event, and it is the last event
DoneOnceLast(evs) ==
    /\ Len(OfKind(evs, "done")) = 1
    /\ Last(evs).kind = "done"

\* positions strictly inside the first "<think>" of text
InsideOpen(text) == (Find(text, OPEN)) .. (Find(text, OPEN) + Len(OPEN) - 2)

\* the fragments occur in text as non-overlapping substrings, in order
RECURSIVE Embeds(_, _)
Embeds(parts, text) ==
    \/ parts = <<>>
    \/ /\ Contains(text, Head(parts))
       /\ Embeds(Tail(parts), SplitAfter(text, Head(parts)))

IsPrefix(s, t) == Len(s) <= Len(t) /\ SubSeq(t, 1, Len(s)) = s

\* no chunk boundary fell inside the first "<think>"
MarkerWhole == cuts \cap InsideOpen(raw) = {}

\* every character of the first "<think>" arrived as a chunk of its own
OpenCharByChar ==
    /\ Contains(raw, OPEN)
    /\ pos >= Find(raw, OPEN) + Len(OPEN) - 1
    /\ \A p \in (Find(raw, OPEN) - 1)..(Find(raw, OPEN) + Len(OPEN) - 1) :
         p > 0 => p \in cuts

----------------------------------------------------------------------------
(* Plain chat: reasoning suppression                                       *)

\* C1: for the stream "A<think>B</think>C" under every chunking, a run that
\* ends normally has shown exactly "AC", and its completion event is
\* emitted once and last.
C1_SuppressedUnderEveryChunking ==
    (pc = "completed" /\ raw = FullStream)
        => /\ Visible(events) = A \o C
           /\ DoneOnceLast(events)

\* C2: when "<think>" arrived one character per chunk, the visible output and
\* the inside/outside state at the end equal those of the same chunk sequence
\* with "<think>" delivered as one chunk.
C2_SplitMarkerSameAsWhole ==
    (pc = "completed" /\ OpenCharByChar)
        => LET whole == FeedAll(ChunksOf(raw, cuts \ InsideOpen(raw)))
           IN  /\ Visible(events) = whole.out
               /\ in_thinking = whole.in_thinking

\* C3: a stream without "<think>" and "</think>" is shown completely: the
\* visible fragments concatenate to the concatenation of the chunks.
C3_MarkerFreeLossless ==
    (pc = "completed" /\ ~Contains(raw, OPEN) /\ ~Contains(raw, CLOSE))
        => Visible(events) = raw

\* C4: every run of generate() that has ended emitted the completion event
\* exactly once and last; after an upstream error there is one error event
\* and the completion event follows it.
C4_DoneExactlyOnce ==
    (pc \in {"completed", "failed"})
        => /\ DoneOnceLast(events)
           /\ pc = "failed" => Len(OfKind(events, "error")) = 1

\* C5: the upstream yields one non-blank marker-free chunk (such as "partial")
\* and then raises: the client gets that chunk as one visible fragment, then
\* one error event, nothing more, and no exception leaves generate().
C5_PartialThenError ==
    (/\ pc = "failed"
     /\ cuts = {pos}
     /\ ~IsBlank(received)
     /\ ~Contains(received, OPEN) /\ ~Contains(received, CLOSE))
        => /\ events = <<ContentEvent(received), ErrorEvent>>
           /\ ~unhandled
           /\ ~ENABLED Next

C5_Witness ==
    /\ pc = "failed"
    /\ raw = Partial
    /\ cuts = {Len(Partial)}
    /\ events = <<ContentEvent(Partial), ErrorEvent>>

\* C6: for a + "<think>" + b with the block never closed and "<think>" not cut
\* (a without whitespace), nothing but a is ever visible, and a run that ends
\* normally has shown exactly a and emitted the completion event once, last.
C6_UnterminatedDiscarded ==
    \A a \in SolidTexts, b \in BlockTexts :
        (raw = OpenStream(a, b) /\ MarkerWhole)
            => /\ IsPrefix(Visible(events), a)
               /\ pc = "completed" => /\ Visible(events) = a
                                      /\ DoneOnceLast(events)

C6_Witness ==
    /\ pc = "completed"
    /\ raw = OpenStream(<<"a", "<">>, <<"b", " ">>)
    /\ MarkerWhole
    /\ Cardinality(cuts) >= 3
    /\ in_thinking
    /\ thinking_buffer = <<"b", " ">>

\* C8: at every point of the stream the visible fragments are, in order,
\* non-overlapping pieces of the text received so far, so what was shown is a
\* subsequence of what was received.
C8_EmittedInUpstreamOrder ==
    /\ IsSubseq(Visible(events), received)
    /\ Embeds(Contents(OfKind(events, "content")), received)

C8_Witness ==
    /\ pc = "completed"
    /\ raw = FullStream
    /\ Len(OfKind(events, "content")) = 2
    /\ Visible(events) = A \o C

----------------------------------------------------------------------------
(* Bot chat: reasoning passes through                                      *)

\* C7: in the streaming bot chat every upstream chunk is forwarded as one
\* content event, unchanged and in order, inside a <think> block or not; for
\* "A<think>B</think>C" the forwarded contents concatenate to the whole stream.
C7_BotForwardsEveryChunk ==
    LET contentEvents == OfKind(events, "content")
        nChunks       == Cardinality(cuts)
    IN  /\ Len(contentEvents) >= nChunks
        /\ Contents(SubSeq(contentEvents, 1, nChunks)) = ChunksOf(received, cuts)
        /\ Concat(Contents(SubSeq(contentEvents, 1, nChunks))) = received
        /\ (pc = "completed" /\ raw = FullStream)
              => Visible(events) = A \o OPEN \o B \o CLOSE \o C

C7_Witness ==
    /\ pc = "completed"
    /\ raw = FullStream
    /\ cuts \cap InsideOpen(raw) # {}
    /\ Cardinality(cuts) >= 4
    /\ Visible(events) = FullStream

\* the content events of the chunks received so far
RECURSIVE BotEvents(_)
BotEvents(chunks) ==
    IF chunks = <<>> THEN <<>>
    ELSE <<BotContentEvent(Head(chunks))>> \o BotEvents(Tail(chunks))

\* C24: a run of the bot-chat generator that has ended has emitted the
\* sentinel "data: [DONE]" exactly once, as its last event, and none before
\* it ends; when the upstream raised, the events are the fragments already
\* forwarded, then one apology content event, then the sentinel, and no
\* exception propagates.
C24_SentinelOnceLast ==
    /\ pc = "streaming" => OfKind(events, "sentinel") = <<>>
    /\ pc \in {"completed", "failed"}
          => /\ Len(OfKind(events, "sentinel")) = 1
             /\ Last(events) = SentinelEvent
    /\ pc = "completed"
          => events = BotEvents(ChunksOf(received, cuts)) \o <<SentinelEvent>>
    /\ pc = "failed"
          => /\ events = BotEvents(ChunksOf(received, cuts))
                            \o <<BotContentEvent(ApologyMessage), SentinelEvent>>
             /\ ~unhandled

\* the upstream raised after two chunks of "A<think>B</think>C"
C24_Witness ==
    /\ pc = "failed"
    /\ raw = FullStream
    /\ Cardinality(cuts) = 2
    /\ Len(events) = 4
    /\ events[3] = BotContentEvent(ApologyMessage)

\* C27: in the non-streaming bot chat, for "A<think>B</think>C" under every
\* chunking, the response returned after a normal end contains A and C and
\* no part of B.
C27_NonStreamingDropsReasoning ==
    (pc = "completed" /\ raw = FullStream)
        => /\ Contains(response_content, A)
           /\ Contains(response_content, C)
           /\ ~Contains(response_content, B)

----------------------------------------------------------------------------
(* Retrieval                                                               *)

RECURSIVE Ids(_)
Ids(docs) == IF docs = <<>> THEN <<>> ELSE <<Head(docs).id>> \o Ids(Tail(docs))

\* search_knowledge returned the formatted results of a store answer that
\* carried the distances ds, in that store order
StoreAnswered(ds) ==
    /\ hpc = "streaming"
    /\ store_queries = 1
    /\ Len(relevant_docs) = Len(ds)
    /\ \A i \in 1..Len(ds) :
         \E j \in 1..Len(relevant_docs) :
             relevant_docs[j].id = i /\ relevant_docs[j].distance = ds[i]

\* the similarity reported for the document with the given id
SimilarityOf(id) ==
    LET j == CHOOSE k \in 1..Len(relevant_docs) : relevant_docs[k].id = id
    IN  relevant_docs[j].similarity

\* C9: for store distances 0.1, 0.5, -0.2 the similarities are 0.9, 0.5 and
\* 1.0 and the -0.2 document is returned first, then 0.1, then 0.5.
C9_NegativeDistanceRanksFirst ==
    StoreAnswered(<<1, 5, -2>>)
        => /\ SimilarityOf(1) = 9
           /\ SimilarityOf(2) = 5
           /\ SimilarityOf(3) = 10
           /\ Ids(relevant_docs) = <<3, 1, 2>>

\* C9 (amended): for store distances 0.1, 0.5, -0.2 the similarities are 0.9,
\* 0.5 and 0.8 and the order is the 0.1 document, the -0.2 document, the 0.5
\* document.
C9_NegativeDistanceAddsToOne ==
    StoreAnswered(<<1, 5, -2>>)
        => /\ SimilarityOf(1) = 9
           /\ SimilarityOf(2) = 5
           /\ SimilarityOf(3) = 8
           /\ Ids(relevant_docs) = <<1, 3, 2>>

C9_Witness ==
    /\ StoreAnswered(<<1, 5, -2>>)
    /\ Ids(relevant_docs) = <<1, 3, 2>>

\* C10: when the embedding requests of search_knowledge throw, the search
\* returns nothing without querying the store, the user content is the raw
\* message alone, and the stream is started.
C10_EmbeddingFailureMeansNoContext ==
    (hpc = "streaming" /\ embed_threw /\ legacy_threw)
        => /\ relevant_docs = <<>>
           /\ store_queries = 0
           /\ user_content = message
           /\ stream_started

----------------------------------------------------------------------------
(* Orchestration of POST /api/chat                                         *)

\* the request carries a coding rule
RuleGiven == coding_rule = "rule"

\* C11: with a coding rule the retriever is never invoked and the user
\* content is the review template without a context block; without one the
\* retriever is invoked exactly once, for at most top_k = 3 documents, as the
\* first step and so before the stream is started.
C11_RetrievalOnlyWithoutRule ==
    /\ RuleGiven => (search_calls = 0 /\ store_queries = 0)
    /\ (~RuleGiven /\ hpc # "received") => search_calls = 1
    /\ stream_started => hpc = "streaming"
    /\ Len(relevant_docs) <= TopK
    /\ (RuleGiven /\ hpc = "streaming") =>
          (relevant_docs = <<>> /\ user_content = RuleContent(message))

C11_Witness ==
    /\ RuleGiven
    /\ hpc = "streaming"
    /\ stream_started
    /\ search_calls = 0
    /\ message = <<"q">>

\* C12: a request with an empty or whitespace-only message is rejected
\* before streaming: it never reaches the stream.
C12_BlankMessageRejected ==
    (IsBlank(message) /\ hpc # "received")
        => (hpc = "rejected" /\ ~stream_started)

\* C13: when the vector store query raises, the request ends with an HTTP
\* 500 response and no stream is started.
C13_StoreFailureAnswers500 ==
    store_raised => (hpc = "http500" /\ ~stream_started)

\* C13 (amended): when the vector store query raises, search_knowledge
\* returns nothing, the user content is the raw message and the stream is
\* started; the request does not end in an HTTP 500.
C13_StoreFailureDegrades ==
    store_raised
        => /\ hpc = "streaming"
           /\ stream_started
           /\ relevant_docs = <<>>
           /\ user_content = message

C13_Witness ==
    /\ store_raised
    /\ store_queries = 1
    /\ stream_started
    /\ message = <<"q">>

\* the last (at most ten) turns of the history, by position
RecentTurns ==
    LET n == Len(history)
        k == IF n < HistLimit THEN n ELSE HistLimit
    IN  [j \in 1..k |-> history[n - k + j]]

\* the positions of the turns among the last ten that have a role and a content
KeptPositions ==
    {i \in 1..Len(history) :
        /\ i > Len(history) - HistLimit
        /\ history[i].role # ""
        /\ history[i].content # <<>>}

\* C16: the message list is the most recent 10 history turns, in order, then
\* one user turn with the composed content; at most 11 entries.
C16_LastTenTurnsThenUser ==
    hpc = "streaming"
        => /\ messages = RecentTurns \o <<UserTurn(user_content)>>
           /\ Len(messages) <= HistLimit + 1
           /\ Last(messages).role = "user"

\* C16 (amended): the message list is, in order, those of the most recent 10
\* history turns that have a non-empty role and a non-empty content, then one
\* user turn with the composed content; at most 11 entries.
C16_KeptRecentTurnsThenUser ==
    hpc = "streaming"
        => /\ Len(messages) = Cardinality(KeptPositions) + 1
           /\ Len(messages) <= HistLimit + 1
           /\ Last(messages) = UserTurn(user_content)
           /\ \A i \in KeptPositions :
                 messages[Cardinality({j \in KeptPositions : j <= i})] = history[i]

C16_Witness ==
    /\ hpc = "streaming"
    /\ Len(history) = HistLimit + 1
    /\ Len(messages) = HistLimit
    /\ messages[1] = history[2]

\* C19: the results are in descending order of similarity, and results of
\* equal similarity are in the order in which the store returned them.
C19_SortedDescendingStable ==
    \A i, j \in 1..Len(relevant_docs) :
        i < j => /\ relevant_docs[i].similarity >= relevant_docs[j].similarity
                 /\ relevant_docs[i].similarity = relevant_docs[j].similarity
                       => relevant_docs[i].id < relevant_docs[j].id

C19_Witness ==
    /\ StoreAnswered(<<15, 1, -12>>)
    /\ Ids(relevant_docs) = <<2, 1, 3>>

\* C23: whatever distance the store returns (negative, within [0, 1] or
\* above 1), the similarity reported for the result lies in [0, 1].
C23_SimilarityInUnitInterval ==
    \A i \in 1..Len(relevant_docs) :
        /\ relevant_docs[i].similarity >= 0
        /\ relevant_docs[i].similarity <= 10

\* distances -1.2, 0.5 and 1.5 came back in one answer
C23_Witness ==
    /\ StoreAnswered(<<-12, 5, 15>>)
    /\ SimilarityOf(1) = 0 /\ SimilarityOf(2) = 5 /\ SimilarityOf(3) = 0

----------------------------------------------------------------------------
(* Plain chat: what the client is left with                                *)

\* C14: a run of generate() that has ended has shown the client a non-empty
\* visible fragment or an error event; it never ends with neither.
C14_NeverSilent ==
    (pc \in {"completed", "failed"})
        => \/ Visible(events) # <<>>
           \/ Len(OfKind(events, "error")) >= 1

\* the text of t that lies outside reasoning blocks, the scan starting inside
\* a block or not
RECURSIVE OutsideFrom(_, _)
OutsideFrom(t, inside) ==
    IF inside
    THEN IF Contains(t, CLOSE) THEN OutsideFrom(SplitAfter(t, CLOSE), FALSE) ELSE <<>>
    ELSE IF Contains(t, OPEN)
         THEN SplitBefore(t, OPEN) \o OutsideFrom(SplitAfter(t, OPEN), TRUE)
         ELSE t

\* the part of the stream the backend has not delivered yet
upstreamTail == SubSeq(raw, pos + 1, Len(raw))

\* C18: after every chunk, the fragments emitted so far, the pending buffer
\* and the chunks not yet received reconstruct the raw stream, nothing
\* missing but the text inside reasoning blocks.
C18_Lossless ==
    Visible(events) \o OutsideFrom(thinking_buffer \o upstreamTail, in_thinking)
        = OutsideFrom(raw, FALSE)

\* the longest end of t that is a proper, non-empty beginning of "<think>"
AmbiguousSuffix(t) ==
    LET fits == {k \in 1..(Len(OPEN) - 1) :
                    k <= Len(t) /\ SubSeq(t, Len(t) - k + 1, Len(t)) = SubSeq(OPEN, 1, k)}
    IN  IF fits = {} THEN <<>>
        ELSE LET k == CHOOSE x \in fits : \A y \in fits : y <= x
             IN  SubSeq(OPEN, 1, k)

\* C20: outside a block, when the text so far holds no marker and ends in a
\* proper beginning of "<think>", that ending is kept in the pending buffer
\* and is not emitted in this step.
C20_PartialOpenHeldBack ==
    (/\ pc = "streaming"
     /\ pos > 0
     /\ ~in_thinking
     /\ ~Contains(received, OPEN) /\ ~Contains(received, CLOSE)
     /\ AmbiguousSuffix(received) # <<>>)
        => /\ thinking_buffer = AmbiguousSuffix(received)
           /\ Len(Visible(events)) <= pos - Len(thinking_buffer)

----------------------------------------------------------------------------
(* The line reader                                                         *)

\* a line that is not a JSON object carrying content, tool calls or the
\* completion flag
Malformed(line) ==
    \/ line.kind # "object"
    \/ line.content = "absent" /\ line.tools = 0 /\ ~line.done

\* the fragments of the valid lines among the first n, in order, up to and
\* including the first line that carries done=true
RECURSIVE ValidFragments(_, _)
ValidFragments(from, n) ==
    IF from > n THEN <<>>
    ELSE LET line == lines[from]
         IN  IF Malformed(line) THEN ValidFragments(from + 1, n)
             ELSE ContentYield(from, line) \o ToolYield(from, line)
                  \o (IF line.done THEN <<>> ELSE ValidFragments(from + 1, n))

\* C17: a malformed line is skipped without aborting the stream: reading it
\* raises no exception, no fragment is yielded for it, and the fragments of
\* the valid lines read so far are all yielded, in order.
C17_MalformedLineSkipped ==
    /\ rpc # "raised"
    /\ \A k \in 1..Len(yielded) : ~Malformed(lines[yielded[k].line])
    /\ yielded = ValidFragments(1, lpos)


\* C30: once a line with done=true has been read the reader stops: no
\* fragment of a later line is yielded; the content of the done=true line
\* itself has been yielded; and an empty content is never yielded.
C30_StopsAtDone ==
    /\ \A k \in 1..Len(yielded) :
          yielded[k].kind = "content" => lines[yielded[k].line].content = "text"
    /\ \A i \in 1..lpos :
          (lines[i].kind = "object" /\ lines[i].done)
             => /\ i = lpos
                /\ rpc = "stopped"
                /\ \A k \in 1..Len(yielded) : yielded[k].line <= i
                /\ lines[i].content = "text"
                      => yielded # <<>> /\ \E k \in 1..Len(yielded) :
                                              yielded[k] = Fragment(i, "content")

\* the reader stopped at a done=true line that carried content, with a
\* content line after it unread and an empty content before it
C30_Witness ==
    /\ rpc = "stopped"
    /\ lpos = 2 /\ Len(lines) = 3
    /\ lines[1].kind = "object" /\ lines[1].content = "empty"
    /\ lines[2].content = "text"
    /\ lines[3].kind = "object" /\ lines[3].content = "text"
    /\ yielded = <<Fragment(2, "content")>>

----------------------------------------------------------------------------
(* Concurrent requests                                                     *)

\* the parts a request emits when its chunks are fed to a segmenter of its
\* own, from the state st
RECURSIVE FeedParts(_, _)
FeedParts(chunks, st) ==
    IF chunks = <<>> THEN <<>>
    ELSE LET r == ProcessChunk(st.thinking_buffer, st.in_thinking, Head(chunks))
         IN  r.out \o FeedParts(Tail(chunks),
                                [in_thinking |-> r.in_thinking,
                                 thinking_buffer |-> r.thinking_buffer])

\* the events of a request run alone on the chunks it has received
AloneEvents(req) ==
    AsEvents(FeedParts(SubSeq(req.chunks, 1, req.idx),
                       [in_thinking |-> FALSE, thinking_buffer |-> <<>>]))
    \o (IF req.pc = "completed" THEN <<DoneEvent>>
        ELSE IF req.pc = "failed" THEN <<ErrorEvent>> ELSE <<>>)

\* C15: under every interleaving of the chunk arrivals of two concurrent
\* requests, each request has emitted the events it emits when run alone on
\* the same chunks.
C15_ConcurrentAsAlone ==
    \A i \in Requests : reqs # <<>> => reqs[i].events = AloneEvents(reqs[i])

\* both requests in flight, the first inside a reasoning block with text
\* pending while the second, outside any block, has emitted content
C15_Witness ==
    /\ reqs # <<>>
    /\ reqs[1].pc = "streaming" /\ reqs[2].pc = "streaming"
    /\ seg[1].in_thinking /\ seg[1].thinking_buffer # <<>>
    /\ ~seg[2].in_thinking /\ reqs[2].idx > 0
    /\ OfKind(reqs[2].events, "content") # <<>>

----------------------------------------------------------------------------
(* Plain chat: inside a reasoning block                                    *)

\* positions strictly inside the first "</think>" of text
InsideClose(text) == (Find(text, CLOSE)) .. (Find(text, CLOSE) + Len(CLOSE) - 2)

\* a chunk that arrives inside a block and does not complete "</think>" is
\* added to the buffer and nothing is emitted
HeldWhileInside ==
    LET chunk == SubSeq(raw, pos + 1, pos')
    IN  (/\ pc = "streaming" /\ pos' > pos
         /\ in_thinking
         /\ ~Contains(thinking_buffer \o chunk, CLOSE))
        => /\ events' = events
           /\ in_thinking'
           /\ thinking_buffer' = thinking_buffer \o chunk

\* once the last piece of "</think>" of "A<think>B</think>C" has arrived the
\* block is closed, and "C" is shown when it has arrived
CutCloseRecognised ==
    (/\ raw = FullStream /\ MarkerWhole
     /\ pos >= Find(raw, CLOSE) + Len(CLOSE) - 1)
    => /\ ~in_thinking
       /\ thinking_buffer = <<>>
       /\ pos = Len(raw) => Visible(events) = A \o C

\* C21: inside a reasoning block, a chunk that leaves buffer + chunk without
\* a complete "</think>" emits nothing and the whole remainder is kept in the
\* buffer; so a closing marker cut at any position over two or more chunks
\* is recognised when its last piece arrives, and the text after it is
\* emitted.
C21_InsideHeldUntilClose == []CutCloseRecognised /\ [][HeldWhileInside]_vars

\* "</think>" arrived in three pieces or more and "AC" was shown
C21_Witness ==
    /\ raw = FullStream /\ MarkerWhole
    /\ Cardinality(cuts \cap InsideClose(raw)) >= 2
    /\ pc = "completed"
    /\ Visible(events) = A \o C

C25_BufferOnlyInside ==
    /\ thinking_buffer # <<>> => in_thinking
    /\ ~Contains(thinking_buffer, CLOSE)
    /\ ~in_thinking => thinking_buffer = <<>>

\* inside the block of "A<think>B</think>C", the buffer holding "B" and the
\* first four characters of the closing marker
C25_Witness ==
    /\ raw = FullStream
    /\ in_thinking
    /\ thinking_buffer = B \o SubSeq(CLOSE, 1, 4)
    /\ Cardinality(cuts) >= 2

\* C26: a "</think>" that arrives outside a block changes nothing: the state
\* stays OUTSIDE, the buffer stays empty and every chunk is emitted as it
\* came, the marker included.
C26_StrayCloseIsText ==
    raw = StrayClose
        => /\ ~in_thinking
           /\ thinking_buffer = <<>>
           /\ Contents(OfKind(events, "content")) = ChunksOf(received, cuts)
           /\ Visible(events) = received

\* "a</think>c" shown whole, the marker having arrived in one chunk
C26_Witness ==
    /\ raw = StrayClose
    /\ pc = "completed"
    /\ cuts \cap InsideClose(raw) = {}
    /\ Cardinality(cuts) >= 2
    /\ Visible(events) = A \o CLOSE \o C

----------------------------------------------------------------------------
(* Coding rules                                                            *)

\* C28: an update that ends in an error after the existence check leaves the
\* rule stored under rule_id as it was, and after a successful update the
\* updated rule is stored under the same rule_id.
C28_UpdateAllOrNothing ==
    /\ (upc = "http500" /\ existing_rule = "found")
          => RuleById(rules, rule_id) = {Rule(rule_id, "old")}
    /\ upc = "ok" => RuleById(rules, rule_id) = {Rule(rule_id, "new")}

----------------------------------------------------------------------------
(* Bot chat: gating                                                        *)

\* C29: the retriever and the backend stream are called only for a bot that
\* exists and has its knowledge base enabled; for an unknown bot the lookup
\* is answered with 404 and nothing is called; for a bot with the knowledge
\* base off the streaming response is one content event followed by the
\* sentinel, with no backend call.
C29_GatedByBot ==
    /\ (bot_searches > 0 \/ bot_backend > 0) => bot = "enabled"
    /\ (bot = "absent" /\ bpc \notin {"received", "http500"}) => bpc = "http404"
    /\ bpc = "http404" => bot = "absent" /\ events = <<>>
    /\ (bot = "disabled" /\ stream /\ bpc = "responded")
          => /\ Len(events) = 2
             /\ events[1].kind = "content" /\ events[1].content \in SimpleResponses
             /\ events[2] = SentinelEvent
             /\ bot_backend = 0 /\ bot_searches = 0

\* a bot with the knowledge base off has answered a streaming request
C29_Witness ==
    /\ bot = "disabled" /\ stream /\ bpc = "responded"
    /\ Len(events) = 2
    /\ bot_backend = 0

====
